---- MODULE Spec2Model ----
(***************************************************************************)
(* Model of source2/blocks/binary_key_value.py: the binary KV3 block       *)
(* reader (BinaryKeyValue).  read() dispatches on the 4-byte signature to  *)
(* read_v1 (legacy, inline LZ-style stream) or read_v2 (lanes, optional    *)
(* external decompression); both hand a flat buffer to parse/read_type/    *)
(* read_value, which build the document tree.                              *)
(*                                                                         *)
(* The input file (`reader`) is only ever read forwards, so its bytes are  *)
(* chosen when they are read.  The working buffer is a sequence of cells;  *)
(* a cell copied verbatim from the input is Unk until its first read, when *)
(* its value is chosen and kept (later reads of the cell see that value).  *)
(* Unsigned 32-bit values are pairs <<hi16, lo16>> (they do not fit the    *)
(* model checker's integers); Python's unbounded integers never wrap.      *)
(***************************************************************************)
EXTENDS Integers, Sequences, FiniteSets, TLC

\* ------------------------------------------------------------------ bounds
\* Payload lengths of the blocks explored (bytes after the 40-byte header).
ShortPayload == 6
LongPayload == 50
\* Bytes of the file that follow the block, when any do.
TailLen == 3
\* The decompression loop is explored while the buffer is shorter than this.
MaxOut == 7
\* Longest string of the string table the inputs hold.
MaxStrLen == 1
\* Most strings of the string table the inputs hold.
MaxStrings == 2
\* Largest element count of a container the inputs hold.
MaxCount == 5
\* read_type calls explored in one decode.
MaxTypeReads == 3
\* Largest element count of an Array or Object the inputs hold.
MaxChildren == 2
\* Containers open at once.
MaxDepth == 3

\* --------------------------------------------------------------- constants
KVFlag_Nothing == 0
KVFlag_Resource == 1
KVFlag_DeferredResource == 2

KVType_STRING_MULTI == 0
KVType_NULL == 1
KVType_BOOLEAN == 2
KVType_INT64 == 3
KVType_UINT64 == 4
KVType_DOUBLE == 5
KVType_STRING == 6
KVType_BINARY_BLOB == 7
KVType_ARRAY == 8
KVType_OBJECT == 9
KVType_ARRAY_TYPED == 10
KVType_INT32 == 11
KVType_UINT32 == 12
KVType_BOOLEAN_TRUE == 13
KVType_BOOLEAN_FALSE == 14
KVType_INT64_ZERO == 15
KVType_INT64_ONE == 16
KVType_DOUBLE_ZERO == 17
KVType_DOUBLE_ONE == 18

KVType == 0..18
KVFlag == 0..2

ENCODING == <<70, 26, 121, 149, 188, 149, 108, 79, 167, 11, 5, 188, 161, 183, 223, 210>>
FORMAT == <<124, 22, 18, 116, 233, 6, 152, 70, 175, 242, 230, 62, 181, 144, 55, 231>>
SIG == <<86, 75, 86, 3>>
SIG2 == <<1, 51, 86, 75>>

\* Size of the fixed header of either revision: 4 + 16 + 16 + 4 bytes.
HeaderLen == 40

\* ----------------------------------------------------------------- helpers
Min(a, b) == IF a < b THEN a ELSE b
Max(a, b) == IF a > b THEN a ELSE b

RECURSIVE BitAnd(_, _)
BitAnd(a, b) ==
  IF a = 0 \/ b = 0 THEN 0
  ELSE (a % 2) * (b % 2) + 2 * BitAnd(a \div 2, b \div 2)

RECURSIVE Pow2(_)
Pow2(n) == IF n = 0 THEN 1 ELSE 2 * Pow2(n - 1)

Shl(x, n) == x * Pow2(n)
Shr(x, n) == x \div Pow2(n)

\* Python's & on a possibly negative int8 and a mask below 256.
PyAnd(a, m) == BitAnd(IF a < 0 THEN a + 256 ELSE a, m)

\* A cell of the working buffer whose byte has not been read yet.
Unk == -1

\* ByteIO.write_bytes at `pos`: overwrite, extending the buffer at its end.
WriteAt(buf, pos, bytes) ==
  [k \in 1..Max(Len(buf), pos + Len(bytes)) |->
     IF k > pos /\ k <= pos + Len(bytes) THEN bytes[k - pos] ELSE buf[k]]

\* ByteIO.read_bytes(n) at `pos`: the bytes there, fewer at the end of the buffer.
Fetch(buf, pos, n) ==
  [j \in 1..Min(n, Max(Len(buf) - pos, 0)) |-> buf[pos + j]]

\* The buffer once the unread cells of [pos, pos + Len(tmpl)) hold tmpl's bytes.
Resolve(buf, pos, tmpl) ==
  [k \in 1..Len(buf) |->
     IF buf[k] = Unk /\ k > pos /\ k <= pos + Len(tmpl) THEN tmpl[k - pos] ELSE buf[k]]

Rep(b, n) == [j \in 1..n |-> b]

\* ByteIO.seek(pos): an absolute position before the start is refused.
SeekOk(pos) == pos >= 0

\* struct '<b': a byte as a signed 8-bit integer, and back (write_int8).
ToInt8(b) == IF b >= 128 THEN b - 256 ELSE b
FromInt8(v) == v % 256

\* struct '<I': four little-endian bytes as <<hi16, lo16>>.
ToUInt32(bs) == <<bs[3] + 256 * bs[4], bs[1] + 256 * bs[2]>>
\* struct '<i': four little-endian bytes as a signed integer.
ToInt32(bs) == (IF bs[4] >= 128 THEN bs[4] - 256 ELSE bs[4]) * 16777216
               + bs[3] * 65536 + bs[2] * 256 + bs[1]
\* A small natural as four little-endian bytes, and -1, -2 as 32-bit patterns.
LE4(n) == <<n % 256, (n \div 256) % 256, (n \div 65536) % 256, 0>>
LE4Neg(n) == <<256 - n, 255, 255, 255>>

U32(n) == <<n \div 65536, n % 65536>>
U32IsZero(u) == u = <<0, 0>>
U32Dec(u) == IF u[2] > 0 THEN <<u[1], u[2] - 1>> ELSE <<u[1] - 1, 65535>>
\* u == n for a Python int n (an unsigned value is never negative).
U32EqInt(u, n) == n >= 0 /\ u = U32(n)
\* u < n for a small natural n.
U32Less(u, n) == u[1] = 0 /\ u[2] < n

\* Values of the document tree: <<kind, payload>>.  A 64-bit scalar keeps its
\* eight bytes; a float is its IEEE-754 bytes.
None == <<"None", 0>>
Str(bytes) == <<"str", bytes>>
ERROR == Str(<<69, 82, 82, 79, 82>>)
Float0 == <<"float", <<0, 0, 0, 0, 0, 0, 0, 0>>>>
Float1 == <<"float", <<0, 0, 0, 0, 0, 0, 240, 63>>>>
NoId == <<-1, -1>>

\* ------------------------------------------------------------------- state
VARIABLES
  pc,               \* where the decode stands
  err,              \* the exception that ended it ("" when none)
  assembler,        \* which of read_v1 / read_v2 read() invoked
  reader,           \* the input cursor: [pos, size]
  info_block,       \* [absolute_offset, block_size]
  fourcc,           \* the signature read() read
  flags, working, block_mask, i,     \* read_v1's locals
  copy,             \* read_v1's back-reference in progress
  loops,            \* control masks read_v1 has read
  buffer, bpos,     \* self.buffer: its cells and its cursor
  strings, string_count,
  compression_method, expected, produced,   \* read_v2's locals
  bin_blob_count, bin_blob_offset, int_count, int_offset,
  double_count, double_offset, kv_data_offset,
  types, current_type,
  stack, kv, last, ntype, nvalue

vars == <<pc, err, assembler, reader, info_block, fourcc, flags, working,
          block_mask, i, copy, loops, buffer, bpos, strings, string_count,
          compression_method, expected, produced,
          bin_blob_count, bin_blob_offset, int_count, int_offset,
          double_count, double_offset, kv_data_offset, types, current_type,
          stack, kv, last, ntype, nvalue>>

v1Vars == <<flags, working, block_mask, i, copy, loops>>
v2Vars == <<compression_method, expected, produced, bin_blob_count, int_count,
            double_count, int_offset, kv_data_offset, types>>
laneVars == <<bin_blob_offset, double_offset, current_type>>
treeVars == <<stack, kv, last, ntype, nvalue>>
fileVars == <<info_block, fourcc, assembler>>

NoCopy == [offset |-> 0, size |-> 0, lookup_size |-> 0, data |-> <<>>, entry |-> 0,
           lo |-> 0, hi |-> 0, length |-> 0]
\* What the decoder's latest step did (observed by the properties below).
LastOf(op) ==
  [op |-> op, data_type |-> -1, is_array |-> FALSE, name_id |-> NoId, name |-> None,
   looked |-> FALSE, pos0 |-> -1, pos1 |-> -1, lane0 |-> -1, lane1 |-> -1,
   ct0 |-> -1, ct1 |-> -1, outcome |-> "", idx |-> 0, val |-> None,
   count |-> <<0, 0>>, sub_type |-> -1, lane |-> FALSE, before |-> <<>>, after |-> <<>>]
NoLast == LastOf("none")

\* ---------------------------------------------------------- explored inputs
AbsoluteOffsets == {8}
PayloadLens == {ShortPayload, LongPayload}
\* <<payload length, bytes of the file after the block>>
Blocks == {<<ShortPayload, 0>>, <<ShortPayload, TailLen>>, <<LongPayload, 0>>}
FourCCs == {SIG, SIG2, <<86, 75, 86, 4>>, <<0, 0, 0, 0>>}
Encodings == {ENCODING, [ENCODING EXCEPT ![16] = 0]}
Formats == {FORMAT, [FORMAT EXCEPT ![1] = 0]}
\* The 4-byte flag word: a 24-bit target, and the "uncompressed" bit.
FlagWords == {<<4, 0, 0, 0>>, <<5, 0, 0, 0>>, <<6, 0, 0, 0>>, <<0, 1, 0, 0>>,
              <<0, 0, 1, 0>>, <<7, 0, 0, 128>>}
Masks == {0, 8, 2, 16, 65535}
\* (offset - 1) * 16 + (size - 3)
Tokens == {0, 16, 1, 32, 50}
Literals == {0, 1}

Fail(e) == /\ pc' = "error"
           /\ err' = e

\* __init__ (lines 45-61), with the caller's reader placed at the block's start.
Init ==
  /\ pc = "read"
  /\ err = ""
  /\ assembler = "none"
  /\ \E a \in AbsoluteOffsets, b \in Blocks :
       /\ info_block = [absolute_offset |-> a, block_size |-> HeaderLen + b[1]]
       /\ reader = [pos |-> a, size |-> a + HeaderLen + b[1] + b[2]]
  /\ fourcc = <<>>
  /\ flags = <<0, 0, 0, 0>>
  /\ working = FALSE
  /\ block_mask = 0
  /\ i = 0
  /\ copy = NoCopy
  /\ loops = 0
  /\ buffer = <<>>
  /\ bpos = 0
  /\ strings = <<>>
  /\ string_count = <<0, 0>>
  /\ compression_method = 0
  /\ expected = 0
  /\ produced = 0
  /\ bin_blob_count = 0
  /\ bin_blob_offset = -1
  /\ int_count = 0
  /\ int_offset = -1
  /\ double_count = 0
  /\ double_offset = -1
  /\ kv_data_offset = 0
  /\ types = [start |-> 0, len |-> 0]
  /\ current_type = 0
  /\ stack = <<>>
  /\ kv = <<>>
  /\ last = NoLast
  /\ ntype = 0
  /\ nvalue = 0

\* -------------------------------------------------------------------- read
\* read (lines 63-69): which assembler a signature selects, "" when the
\* assertion of line 65 fails.
Dispatch_NoAssert(cc) == IF cc = SIG2 THEN "v2" ELSE "v1"
Dispatch(cc) ==
  IF ~(cc = SIG \/ cc = SIG2) THEN ""
  ELSE IF cc = SIG2 THEN "v2" ELSE "v1"

read ==
  /\ pc = "read"
  /\ \E cc \in FourCCs :
       /\ fourcc' = cc
       /\ reader' = [reader EXCEPT !.pos = @ + 4]
       /\ IF Dispatch(cc) = ""
          THEN Fail("Invalid KV Signature") /\ UNCHANGED assembler
          ELSE /\ assembler' = Dispatch(cc)
               /\ pc' = IF Dispatch(cc) = "v2" THEN "read_v2" ELSE "read_v1"
               /\ err' = err
  /\ UNCHANGED <<info_block, v1Vars, buffer, bpos, strings, string_count, v2Vars,
                 laneVars, treeVars>>

\* ----------------------------------------------------------------- read_v1
\* The 24-bit target of line 99.
Target(f) == Shl(f[3], 16) + Shl(f[2], 8) + f[1]

\* Bytes of the block still unread (line 79).
BlockRest == info_block.block_size - (reader.pos - info_block.absolute_offset)

\* read_v1, lines 72-80: the constants, the flag word, the verbatim copy.
read_v1_header ==
  /\ pc = "read_v1"
  /\ \E encoding \in Encodings, fmt \in Formats, fw \in FlagWords :
       IF encoding # ENCODING
       THEN /\ Fail("Unrecognized KV3 Encoding")
            /\ reader' = [reader EXCEPT !.pos = @ + 16]
            /\ UNCHANGED <<flags, working, buffer, bpos>>
       ELSE IF fmt # FORMAT
       THEN /\ Fail("Unrecognised KV3 Format")
            /\ reader' = [reader EXCEPT !.pos = @ + 32]
            /\ UNCHANGED <<flags, working, buffer, bpos>>
       ELSE /\ flags' = fw
            /\ working' = TRUE
            /\ pc' = "v1_while"
            /\ err' = err
            /\ IF BitAnd(fw[4], 128) # 0
               THEN LET n == info_block.block_size
                               - (reader.pos + 36 - info_block.absolute_offset)
                    IN /\ buffer' = WriteAt(buffer, bpos, Rep(Unk, n))
                       /\ bpos' = bpos + n
                       /\ reader' = [reader EXCEPT !.pos = @ + 36 + n]
               ELSE /\ reader' = [reader EXCEPT !.pos = @ + 36]
                    /\ UNCHANGED <<buffer, bpos>>
  /\ UNCHANGED <<fileVars, block_mask, i, copy, loops, strings, string_count, v2Vars,
                 laneVars, treeVars>>

\* Bytes the verbatim copy of lines 77-79 put in the buffer (0 without it).
VerbatimLen == IF BitAnd(flags[4], 128) # 0 THEN info_block.block_size - HeaderLen ELSE 0

\* Line 99-101 after a produced item: stop, or go on with the next bit / mask.
AfterItem(buf) ==
  IF Len(buf) = Target(flags)
  THEN /\ working' = FALSE
       /\ pc' = "v1_tail"
       /\ i' = i
  ELSE /\ working' = working
       /\ pc' = IF i = 15 THEN "v1_while" ELSE "v1_for"
       /\ i' = IF i = 15 THEN i ELSE i + 1

\* read_v1, lines 81-82: the loop condition and the control mask.
read_v1_while ==
  /\ pc = "v1_while"
  /\ IF reader.pos # reader.size /\ working
     THEN /\ Len(buffer) < VerbatimLen + MaxOut
          /\ IF reader.size - reader.pos < 2
             THEN /\ Fail("struct.error")
                  /\ UNCHANGED <<block_mask, i, loops, reader>>
             ELSE \E m \in Masks :
                    /\ block_mask' = m
                    /\ i' = 0
                    /\ loops' = loops + 1
                    /\ reader' = [reader EXCEPT !.pos = @ + 2]
                    /\ pc' = "v1_for"
                    /\ err' = err
     ELSE /\ pc' = "v1_tail"
          /\ err' = err
          /\ UNCHANGED <<block_mask, i, loops, reader>>
  /\ UNCHANGED <<fileVars, flags, working, copy, buffer, bpos, strings, string_count,
                 v2Vars, laneVars, treeVars>>

\* Lines 86-88: a back-reference's offset, size and chunk length.
TokenOffset(t) == Shr(BitAnd(t, 65520), 4) + 1
TokenSize(t) == BitAnd(t, 15) + 3
LookupSize_Whole(offset, size) == size
LookupSize(offset, size) == IF offset < size THEN offset ELSE size

\* read_v1, lines 83-92 and 96-101: one bit of the mask: a literal, or the
\* start of a back-reference (its source bytes are read here).
read_v1_for ==
  /\ pc = "v1_for"
  /\ Len(buffer) < VerbatimLen + MaxOut
  /\ IF BitAnd(block_mask, Shl(1, i)) > 0
     THEN IF reader.size - reader.pos < 2
          THEN /\ Fail("struct.error")
               /\ UNCHANGED <<reader, copy, buffer, bpos, working, i>>
          ELSE \E t \in Tokens, fill \in Literals :
                 LET offset == TokenOffset(t)
                     size == TokenSize(t)
                     lookup_size == LookupSize(offset, size)
                     entry == bpos
                     known == Resolve(buffer, entry - offset, Rep(fill, lookup_size))
                 IN /\ reader' = [reader EXCEPT !.pos = @ + 2]
                    /\ IF ~SeekOk(entry - offset)
                       THEN \* line 90: the seek raises
                            /\ Fail("ValueError")
                            /\ copy' = [NoCopy EXCEPT !.offset = offset, !.entry = entry,
                                                      !.size = size, !.length = size]
                            /\ UNCHANGED <<buffer, bpos, working, i>>
                       ELSE /\ copy' = [offset |-> offset, size |-> size,
                                        lookup_size |-> lookup_size,
                                        data |-> Fetch(known, entry - offset, lookup_size),
                                        entry |-> entry,
                                        lo |-> entry - offset,
                                        hi |-> entry - offset + lookup_size,
                                        length |-> size]
                            /\ buffer' = known
                            /\ bpos' = entry
                            /\ pc' = "v1_copy"
                            /\ err' = err
                            /\ UNCHANGED <<working, i>>
     ELSE IF reader.size - reader.pos < 1
          THEN /\ Fail("struct.error")
               /\ UNCHANGED <<reader, copy, buffer, bpos, working, i>>
          ELSE \E b \in Literals :
                 LET d == ToInt8(b)
                     out == WriteAt(buffer, bpos, <<FromInt8(d)>>)
                 IN /\ reader' = [reader EXCEPT !.pos = @ + 1]
                    /\ buffer' = out
                    /\ bpos' = bpos + 1
                    /\ err' = err
                    /\ AfterItem(out)
                    /\ UNCHANGED copy
  /\ UNCHANGED <<fileVars, flags, block_mask, loops, strings, string_count, v2Vars,
                 laneVars, treeVars>>

\* Line 94: the chunk one pass of the inner loop writes.
Chunk_Whole(data, lookup_size, size) == data
Chunk(data, lookup_size, size) ==
  SubSeq(data, 1, Min(IF lookup_size < size THEN lookup_size ELSE size, Len(data)))

\* read_v1, lines 93-95 and 99-101: one pass of the inner copy loop; after the
\* last pass, the size check.
read_v1_copy ==
  /\ pc = "v1_copy"
  /\ copy.size > 0
  /\ LET chunk == Chunk(copy.data, copy.lookup_size, copy.size)
         out == WriteAt(buffer, bpos, chunk)
         left == copy.size - copy.lookup_size
     IN /\ buffer' = out
        /\ bpos' = bpos + Len(chunk)
        /\ copy' = [copy EXCEPT !.size = left]
        /\ err' = err
        /\ IF left > 0
           THEN UNCHANGED <<pc, working, i>>
           ELSE AfterItem(out)
  /\ UNCHANGED <<fileVars, reader, flags, block_mask, loops, strings, string_count,
                 v2Vars, laneVars, treeVars>>

\* ------------------------------------------------------------ string table
StringCounts == {LE4(n) : n \in 0..MaxStrings}

\* read_v1, lines 102-103: rewind and read the string count.
read_v1_tail ==
  /\ pc = "v1_tail"
  /\ \E t \in StringCounts :
       LET known == Resolve(buffer, 0, t)
           bs == Fetch(known, 0, 4)
       IN /\ buffer' = known
          /\ IF Len(bs) < 4
             THEN /\ Fail("struct.error")
                  /\ bpos' = 0
                  /\ UNCHANGED string_count
             ELSE /\ string_count' = ToUInt32(bs)
                  /\ bpos' = 4
                  /\ pc' = "strings"
                  /\ err' = err
  /\ UNCHANGED <<fileVars, reader, v1Vars, strings, v2Vars, laneVars, treeVars>>

\* ByteIO.read_ascii_string at `pos`: bytes up to a 0 byte or the end of the
\* buffer.  Unread cells hold `fresh` further non-zero bytes (65), then the
\* terminator.
RECURSIVE ScanString(_, _, _, _)
ScanString(buf, pos, fresh, acc) ==
  IF pos >= Len(buf) THEN [buf |-> buf, pos |-> pos, str |-> acc]
  ELSE LET cell == IF buf[pos + 1] # Unk THEN buf[pos + 1]
                   ELSE IF fresh > 0 THEN 65 ELSE 0
           known == [buf EXCEPT ![pos + 1] = cell]
       IN IF cell = 0 THEN [buf |-> known, pos |-> pos + 1, str |-> acc]
          ELSE ScanString(known, pos + 1,
                          IF buf[pos + 1] = Unk THEN fresh - 1 ELSE fresh,
                          Append(acc, cell))

\* Lines 104-105 and 145-146: one pass of the loop that fills self.strings.
read_string ==
  /\ pc = "strings"
  /\ ~U32IsZero(string_count)
  /\ Len(strings) < MaxStrings + 1
  /\ LET r == ScanString(buffer, bpos, MaxStrLen, <<>>)
     IN /\ buffer' = r.buf
        /\ bpos' = r.pos
        /\ strings' = Append(strings, r.str)
  /\ string_count' = U32Dec(string_count)
  /\ UNCHANGED <<pc, err, fileVars, reader, v1Vars, v2Vars, laneVars, treeVars>>

\* ----------------------------------------------------------------- read_v2
\* Lane counts of the headers explored: [blob, int, double].
V2Headers == {<<0, 1, 1>>, <<3, 0, 0>>, <<4, 1, 0>>}
Methods == {0, 1, 2}
\* The expected and the actual length of what uncompress returns.
ExpectedLens == {ShortPayload}
UncompressedLens == {ShortPayload, ShortPayload + 1}

\* Lines 119-132: how the payload is obtained for a compression method:
\* "stored", "uncompress", or "" for NotImplementedError.
PayloadRule(method) ==
  IF method = 0 THEN "stored"
  ELSE IF method = 1 THEN "uncompress"
  ELSE ""

\* Line 129: the assertion on the decompressed length.
LengthOk_Unchecked(u_len, uncompressed_size) == TRUE
LengthOk(u_len, uncompressed_size) == u_len = uncompressed_size

\* read_v2, lines 112-132: the format constant, the lane counts, the payload.
\* uncompress is external: its output is u_len unread cells.
read_v2_header ==
  /\ pc = "read_v2"
  /\ \E fmt \in Formats, method \in Methods, h \in V2Headers :
       IF fmt # FORMAT
       THEN /\ Fail("Unrecognised KV3 Format")
            /\ reader' = [reader EXCEPT !.pos = @ + 16]
            /\ UNCHANGED <<compression_method, expected, produced, bin_blob_count,
                           int_count, double_count, buffer, bpos>>
       ELSE /\ compression_method' = method
            /\ bin_blob_count' = h[1]
            /\ int_count' = h[2]
            /\ double_count' = h[3]
            /\ IF PayloadRule(method) = "stored"
               THEN LET length == BlockRest - 36
                    IN /\ expected' = length
                       /\ produced' = length
                       /\ buffer' = WriteAt(buffer, bpos, Rep(Unk, length))
                       /\ bpos' = bpos + length
                       /\ reader' = [reader EXCEPT !.pos = @ + 36 + length]
                       /\ pc' = "v2_layout"
                       /\ err' = err
               ELSE IF PayloadRule(method) = "uncompress"
               THEN \E uncompressed_size \in ExpectedLens, u_len \in UncompressedLens :
                      LET compressed_size == BlockRest - 36
                      IN /\ expected' = uncompressed_size
                         /\ produced' = u_len
                         /\ reader' = [reader EXCEPT !.pos = @ + 36 + compressed_size]
                         /\ IF ~LengthOk(u_len, uncompressed_size)
                            THEN /\ Fail("Decompressed data size does not match expected size")
                                 /\ UNCHANGED <<buffer, bpos>>
                            ELSE /\ buffer' = WriteAt(buffer, bpos, Rep(Unk, u_len))
                                 /\ bpos' = bpos + u_len
                                 /\ pc' = "v2_layout"
                                 /\ err' = err
               ELSE /\ Fail("Unknown KV3 compression method")
                    /\ reader' = [reader EXCEPT !.pos = @ + 32]
                    /\ UNCHANGED <<expected, produced, buffer, bpos>>
  /\ UNCHANGED <<fileVars, v1Vars, strings, string_count, int_offset, kv_data_offset,
                 types, laneVars, treeVars>>

\* Lines 134-136: the cursor after the blob lane.
AfterBlobs(blob_count) ==
  IF blob_count # 0 THEN blob_count + (4 - (blob_count % 4)) ELSE blob_count

\* read_v2, lines 134-144: the lane layout up to the string table.
read_v2_layout ==
  /\ pc = "v2_layout"
  /\ \E t \in StringCounts :
       LET at == AfterBlobs(bin_blob_count)
           known == Resolve(buffer, at, t)
           bs == Fetch(known, at, 4)
       IN /\ buffer' = known
          /\ IF Len(bs) < 4
             THEN /\ Fail("struct.error")
                  /\ bpos' = at
                  /\ UNCHANGED <<string_count, kv_data_offset, int_offset, double_offset>>
             ELSE /\ string_count' = ToUInt32(bs)
                  /\ kv_data_offset' = at + 4
                  /\ int_offset' = at + 4
                  /\ double_offset' = at + 4 + int_count * 4
                  /\ bpos' = at + 4 + int_count * 4 + double_count * 8
                  /\ pc' = "strings"
                  /\ err' = err
  /\ UNCHANGED <<fileVars, reader, v1Vars, strings, compression_method, expected,
                 produced, bin_blob_count, int_count, double_count, types,
                 bin_blob_offset, current_type, treeVars>>


\* ------------------------------------------------------- type/value decoder

\* Bytes an unread cell may turn out to hold, by what is read there.
TypeBytes == (0..19) \cup {134}
FlagBytes == {1, 3}
CountBytes == {LE4(n) : n \in 0..MaxCount}
ChildCountBytes == {LE4(n) : n \in 0..MaxChildren}
NameIdBytes == {LE4(0), LE4(MaxStrings), LE4Neg(1)}
StringIdBytes == {LE4(0), LE4(MaxStrings), LE4Neg(1), LE4Neg(2)}
Int32Bytes == {LE4Neg(2)}
BoolBytes == {<<1>>}
\* An unread 64-bit scalar at offset `at` holds a pattern that names the offset.
WideFill(at) == <<at % 256, 0, 0, 0, 0, 0, 240, 63>>

ValueBytes(data_type) ==
  CASE data_type = KVType_BOOLEAN -> BoolBytes
    [] data_type = KVType_INT32 -> Int32Bytes
    [] data_type = KVType_STRING -> StringIdBytes
    [] data_type \in {KVType_ARRAY, KVType_OBJECT} -> ChildCountBytes
    [] data_type = KVType_ARRAY_TYPED -> CountBytes
    [] OTHER -> {<<>>}
SubTypeBytes(data_type) == IF data_type = KVType_ARRAY_TYPED THEN TypeBytes ELSE {0}
FlagBytesFor(t) == IF t >= 128 THEN FlagBytes ELSE {0}

\* The decoder's cursors: the buffer, its position, and self's lane cursors.
Ctx == [buf |-> buffer, pos |-> bpos, ct |-> current_type,
        dbl |-> double_offset, blob |-> bin_blob_offset, nt |-> ntype]

\* A typed ByteIO read (struct.unpack) of n bytes at `at`; not ok when the
\* buffer ends before n bytes.
TypedRead(c, at, n, tmpl) ==
  LET known == Resolve(c.buf, at, tmpl)
      bs == Fetch(known, at, n)
  IN [ok |-> Len(bs) = n, c |-> [c EXCEPT !.buf = known], bytes |-> bs]

\* Python's list indexing: negative indices count from the end.
PyIndexOk(n, idx) == -n <= idx /\ idx < n
PyIndex(seq, idx) == IF idx >= 0 THEN seq[idx + 1] ELSE seq[Len(seq) + idx + 1]

\* parse, lines 177-179: the name of a value.
ReadName(c, in_array, tmpl) ==
  IF in_array
  THEN [ok |-> TRUE, err |-> "", c |-> c, name |-> None, id |-> NoId, looked |-> FALSE]
  ELSE LET r == TypedRead(c, c.pos, 4, tmpl)
       IN IF ~r.ok
          THEN [ok |-> FALSE, err |-> "struct.error", c |-> r.c, name |-> None,
                id |-> NoId, looked |-> FALSE]
          ELSE LET string_id == ToUInt32(r.bytes)
                   c1 == [r.c EXCEPT !.pos = @ + 4]
               IN IF U32EqInt(string_id, -1)
                  THEN [ok |-> TRUE, err |-> "", c |-> c1, name |-> ERROR,
                        id |-> string_id, looked |-> FALSE]
                  ELSE IF U32Less(string_id, Len(strings))
                  THEN [ok |-> TRUE, err |-> "", c |-> c1,
                        name |-> Str(strings[string_id[2] + 1]),
                        id |-> string_id, looked |-> TRUE]
                  ELSE [ok |-> FALSE, err |-> "IndexError", c |-> c1, name |-> None,
                        id |-> string_id, looked |-> TRUE]

\* read_type, lines 157-161 and 166-170: one byte from the type-tag lane when
\* there is one, else from the main cursor.
ReadTypeByte_Inline(c, t) ==
  LET r == TypedRead(c, c.pos, 1, <<t>>)
  IN IF ~r.ok
     THEN [ok |-> FALSE, err |-> "struct.error", c |-> r.c, v |-> 0]
     ELSE [ok |-> TRUE, err |-> "", c |-> [r.c EXCEPT !.pos = @ + 1],
           v |-> ToInt8(r.bytes[1])]
ReadTypeByte(c, t) ==
  IF types.len > 0
  THEN IF c.ct >= types.len
       THEN [ok |-> FALSE, err |-> "IndexError", c |-> c, v |-> 0]
       ELSE LET r == TypedRead(c, types.start + c.ct, 1, <<t>>)
            IN [ok |-> TRUE, err |-> "", c |-> [r.c EXCEPT !.ct = @ + 1], v |-> r.bytes[1]]
  ELSE LET r == TypedRead(c, c.pos, 1, <<t>>)
       IN IF ~r.ok
          THEN [ok |-> FALSE, err |-> "struct.error", c |-> r.c, v |-> 0]
          ELSE [ok |-> TRUE, err |-> "", c |-> [r.c EXCEPT !.pos = @ + 1],
                v |-> ToInt8(r.bytes[1])]

TypeRes(ok, e, c, data_type, flag_info) ==
  [ok |-> ok, err |-> e, c |-> c, data_type |-> data_type, flag_info |-> flag_info]

\* read_type, lines 156-171.
read_type(c0, t, f) ==
  LET c == [c0 EXCEPT !.nt = @ + 1]
      r1 == ReadTypeByte(c, t)
  IN IF ~r1.ok THEN TypeRes(FALSE, r1.err, r1.c, 0, 0)
     ELSE IF PyAnd(r1.v, 128) # 0
     THEN LET data_type == PyAnd(r1.v, 127)
              r2 == ReadTypeByte(r1.c, f)
          IN IF ~r2.ok THEN TypeRes(FALSE, r2.err, r2.c, 0, 0)
             ELSE IF r2.v \notin KVFlag THEN TypeRes(FALSE, "ValueError", r2.c, 0, 0)
             ELSE IF data_type \notin KVType THEN TypeRes(FALSE, "ValueError", r2.c, 0, 0)
             ELSE TypeRes(TRUE, "", r2.c, data_type, r2.v)
     ELSE IF r1.v \notin KVType THEN TypeRes(FALSE, "ValueError", r1.c, 0, 0)
     ELSE TypeRes(TRUE, "", r1.c, r1.v, KVFlag_Nothing)

ValRes(ok, e, c, outcome, val) ==
  [ok |-> ok, err |-> e, c |-> c, outcome |-> outcome, val |-> val,
   count |-> <<0, 0>>, sub_type |-> 0, sub_flag |-> 0, idx |-> 0, lane |-> FALSE]

\* Lines 202/206, 212/216, 222/226: the lane offset value that the branch of
\* a 64-bit type takes to mean "no lane".
LaneSentinel(data_type) == IF data_type = KVType_INT64 THEN 0 ELSE -1

\* read_value, lines 200-228: a 64-bit scalar.
ReadWide(c, data_type, kind) ==
  LET entry == c.pos
      lane == c.dbl > LaneSentinel(data_type)
      at == IF lane THEN c.dbl ELSE entry
      c1 == IF lane THEN [c EXCEPT !.dbl = @ + 8] ELSE c
      r == TypedRead(c1, at, 8, WideFill(at))
      c2 == [r.c EXCEPT !.pos = entry]
      c3 == IF c2.dbl = LaneSentinel(data_type) THEN [c2 EXCEPT !.pos = @ + 8] ELSE c2
  IN IF ~r.ok THEN [ValRes(FALSE, "struct.error", c2, "error", None) EXCEPT !.lane = lane]
     ELSE [ValRes(TRUE, "", c3, "add", <<kind, r.bytes>>) EXCEPT !.lane = lane]

\* read_value, lines 190-198: a boolean.
ReadBoolean(c, tmpl) ==
  LET entry == c.pos
      lane == c.blob > -1
      c1 == IF lane THEN [c EXCEPT !.blob = @ + 1] ELSE c
      r == TypedRead(c1, IF lane THEN c.blob ELSE entry, 1, tmpl)
      c2 == [r.c EXCEPT !.pos = entry]
      c3 == IF c2.blob = -1 THEN [c2 EXCEPT !.pos = @ + 1] ELSE c2
  IN IF ~r.ok THEN ValRes(FALSE, "struct.error", c2, "error", None)
     ELSE ValRes(TRUE, "", c3, "add", <<"bool", ToInt8(r.bytes[1]) > 0>>)

\* read_value, lines 239-245: a string-table reference.
ReadString(c, tmpl) ==
  LET r == TypedRead(c, c.pos, 4, tmpl)
  IN IF ~r.ok THEN ValRes(FALSE, "struct.error", r.c, "error", None)
     ELSE LET string_id == ToInt32(r.bytes)
              c1 == [r.c EXCEPT !.pos = @ + 4]
          IN IF string_id = -1
             THEN [ValRes(TRUE, "", c1, "add", None) EXCEPT !.idx = string_id]
             ELSE IF PyIndexOk(Len(strings), string_id)
             THEN [ValRes(TRUE, "", c1, "add", Str(PyIndex(strings, string_id)))
                     EXCEPT !.idx = string_id]
             ELSE [ValRes(FALSE, "IndexError", c1, "error", None) EXCEPT !.idx = string_id]

\* read_value, lines 246-247, 255-256, 265-267: the head of a container.
ReadHead(c, data_type, tmpl, t, f) ==
  LET r == TypedRead(c, c.pos, 4, tmpl)
  IN IF ~r.ok THEN ValRes(FALSE, "struct.error", r.c, "error", None)
     ELSE LET size == ToUInt32(r.bytes)
              c1 == [r.c EXCEPT !.pos = @ + 4]
          IN IF data_type # KVType_ARRAY_TYPED
             THEN [ValRes(TRUE, "", c1, "push", None) EXCEPT !.count = size]
             ELSE LET rt == read_type(c1, t, f)
                  IN IF ~rt.ok THEN ValRes(FALSE, rt.err, rt.c, "error", None)
                     ELSE [ValRes(TRUE, "", rt.c, "push", None) EXCEPT
                             !.count = size, !.sub_type = rt.data_type,
                             !.sub_flag = rt.flag_info]

\* read_value, lines 185-283, up to the loop of a container.
read_value(c, data_type, tmpl, t, f) ==
  CASE data_type = KVType_NULL -> ValRes(TRUE, "", c, "add", None)
    [] data_type = KVType_BOOLEAN -> ReadBoolean(c, tmpl)
    [] data_type = KVType_INT64 -> ReadWide(c, data_type, "int64")
    [] data_type = KVType_UINT64 -> ReadWide(c, data_type, "uint64")
    [] data_type = KVType_DOUBLE -> ReadWide(c, data_type, "float")
    [] data_type = KVType_DOUBLE_ZERO -> ValRes(TRUE, "", c, "add", Float0)
    [] data_type = KVType_DOUBLE_ONE -> ValRes(TRUE, "", c, "add", Float1)
    [] data_type = KVType_INT32 ->
         LET r == TypedRead(c, c.pos, 4, tmpl)
         IN IF ~r.ok THEN ValRes(FALSE, "struct.error", r.c, "error", None)
            ELSE ValRes(TRUE, "", [r.c EXCEPT !.pos = @ + 4], "add",
                        <<"int", ToInt32(r.bytes)>>)
    [] data_type = KVType_STRING -> ReadString(c, tmpl)
    [] data_type \in {KVType_ARRAY, KVType_OBJECT, KVType_ARRAY_TYPED} ->
         ReadHead(c, data_type, tmpl, t, f)
    [] OTHER -> ValRes(TRUE, "", c, "nothing", None)


Frame(kind, n, name, is_array, sub_type, sub_flag) ==
  [kind |-> kind, n |-> n, acc |-> <<>>, name |-> name, is_array |-> is_array,
   sub_type |-> sub_type, sub_flag |-> sub_flag, count |-> n]
Top == stack[Len(stack)]
Below == SubSeq(stack, 1, Len(stack) - 1)

\* Line 106 / 152: parse(self.buffer, self.kv, True), the root call.
RootFrame == Frame("root", U32(1), None, TRUE, 0, 0)

\* read_v1, line 106: the string table is complete; decode the tree.
read_v1_parse ==
  /\ pc = "strings"
  /\ assembler = "v1"
  /\ U32IsZero(string_count)
  /\ pc' = "parse"
  /\ stack' = <<RootFrame>>
  /\ UNCHANGED <<err, fileVars, reader, v1Vars, buffer, bpos, strings, string_count,
                 v2Vars, laneVars, kv, last, ntype, nvalue>>

\* Line 147: the length of the type-tag lane.
TypesLen(size, tell) == size - tell - 4

\* read_v2, lines 147-152: the type-tag lane, then decode the tree from the
\* recorded start.  self.types[k] is the buffer's byte at types.start + k.
read_v2_types ==
  /\ pc = "strings"
  /\ assembler = "v2"
  /\ U32IsZero(string_count)
  /\ types' = [start |-> bpos, len |-> Max(TypesLen(Len(buffer), bpos), 0)]
  /\ bpos' = kv_data_offset
  /\ pc' = "parse"
  /\ stack' = <<RootFrame>>
  /\ UNCHANGED <<err, fileVars, reader, v1Vars, buffer, strings, string_count,
                 compression_method, expected, produced, bin_blob_count, int_count,
                 double_count, int_offset, kv_data_offset, laneVars, kv, last,
                 ntype, nvalue>>

\* dict.update({name: v}): replace the entry of that name, else add one.
DictUpdate(d, name, v) ==
  IF \E j \in 1..Len(d) : d[j][1] = name
  THEN [j \in 1..Len(d) |-> IF d[j][1] = name THEN <<name, v>> ELSE d[j]]
  ELSE Append(d, <<name, v>>)

\* Line 186: add.
Add(frame, name, is_array, v) ==
  IF ~is_array THEN [frame EXCEPT !.acc = DictUpdate(@, name, v)]
  ELSE [frame EXCEPT !.acc = Append(@, v)]

ContainerKind(data_type) ==
  CASE data_type = KVType_ARRAY -> "array"
    [] data_type = KVType_OBJECT -> "object"
    [] OTHER -> "typed"

\* The state after read_value(name, ..., data_type, ..., is_array) returned r,
\* called with the cursors c0 for the value the top frame's loop is at.
Apply(r, c0, name, name_id, looked, data_type, is_array) ==
  /\ buffer' = r.c.buf
  /\ bpos' = r.c.pos
  /\ current_type' = r.c.ct
  /\ double_offset' = r.c.dbl
  /\ bin_blob_offset' = r.c.blob
  /\ r.c.nt <= MaxTypeReads
  /\ ntype' = r.c.nt
  /\ last' = [LastOf("read_value") EXCEPT
                !.data_type = data_type, !.is_array = is_array, !.name_id = name_id,
                !.name = name, !.looked = looked, !.pos0 = c0.pos, !.pos1 = r.c.pos,
                !.lane0 = c0.dbl, !.lane1 = r.c.dbl, !.ct0 = c0.ct, !.ct1 = r.c.ct,
                !.outcome = r.outcome, !.idx = r.idx, !.val = r.val,
                !.count = r.count, !.sub_type = r.sub_type, !.lane = r.lane,
                !.before = Top.acc,
                !.after = IF r.outcome = "add" THEN Add(Top, name, is_array, r.val).acc
                          ELSE Top.acc]
  /\ IF ~r.ok
     THEN Fail(r.err) /\ UNCHANGED stack
     ELSE /\ pc' = pc
          /\ err' = err
          /\ LET base == [Top EXCEPT !.n = U32Dec(@)]
             IN CASE r.outcome = "add" ->
                       stack' = Append(Below, Add(base, name, is_array, r.val))
                  [] r.outcome = "push" ->
                       /\ Len(stack) < MaxDepth
                       /\ stack' = Append(Append(Below, base),
                                          Frame(ContainerKind(data_type), r.count, name,
                                                is_array, r.sub_type, r.sub_flag))
                  [] OTHER -> stack' = Append(Below, base)

\* The state after parse failed before read_value (the name or the type).
ParseFailed(e, c, c0, name_id, looked) ==
  /\ Fail(e)
  /\ buffer' = c.buf
  /\ bpos' = c.pos
  /\ current_type' = c.ct
  /\ ntype' = c.nt
  /\ last' = [LastOf("parse") EXCEPT !.name_id = name_id, !.looked = looked,
                !.pos0 = c0.pos, !.pos1 = c.pos, !.ct0 = c0.ct, !.ct1 = c.ct,
                !.outcome = "error", !.before = Top.acc, !.after = Top.acc]
  /\ UNCHANGED <<stack, double_offset, bin_blob_offset>>

\* parse, lines 173-182: one value of the root, an Array or an Object.
parse ==
  /\ pc = "parse"
  /\ stack # <<>>
  /\ Top.kind \in {"root", "array", "object"}
  /\ ~U32IsZero(Top.n)
  /\ ntype < MaxTypeReads
  /\ \E tn \in NameIdBytes, t \in TypeBytes :
       \E f \in FlagBytesFor(t) :
         LET in_array == Top.kind # "object"
             rn == ReadName(Ctx, in_array, tn)
             \* in an array no name is read: tn is not an input there
         IN /\ (in_array => tn = LE4(0))
            /\ IF ~rn.ok THEN ParseFailed(rn.err, rn.c, Ctx, rn.id, rn.looked)
               ELSE LET rt == read_type(rn.c, t, f)
                    IN IF ~rt.ok THEN ParseFailed(rt.err, rt.c, Ctx, rn.id, rn.looked)
                       ELSE \E tv \in ValueBytes(rt.data_type),
                               st \in SubTypeBytes(rt.data_type) :
                              \E sf \in FlagBytesFor(st) :
                                Apply(read_value(rt.c, rt.data_type, tv, st, sf), rt.c,
                                      rn.name, rn.id, rn.looked, rt.data_type, in_array)
  /\ UNCHANGED <<fileVars, reader, v1Vars, strings, string_count, v2Vars, kv, nvalue>>

\* read_value, lines 270-271: one element of an Array-Typed value.
read_element ==
  /\ pc = "parse"
  /\ stack # <<>>
  /\ Top.kind = "typed"
  /\ ~U32IsZero(Top.n)
  /\ nvalue < MaxCount
  /\ nvalue' = nvalue + 1
  /\ \E tv \in ValueBytes(Top.sub_type), st \in SubTypeBytes(Top.sub_type) :
       \E sf \in FlagBytesFor(st) :
         Apply(read_value(Ctx, Top.sub_type, tv, st, sf), Ctx,
               Top.name, NoId, FALSE, Top.sub_type, TRUE)
  /\ UNCHANGED <<fileVars, reader, v1Vars, strings, string_count, v2Vars, kv>>

\* read_value, lines 274-279: what an Array-Typed value becomes.
TypedResult(sub_type, t_array_size, tmp) ==
  IF sub_type = KVType_DOUBLE /\ U32EqInt(t_array_size, 3) THEN <<"SourceVector", tmp>>
  ELSE IF sub_type = KVType_DOUBLE /\ U32EqInt(t_array_size, 4) THEN <<"SourceVector4D", tmp>>
  ELSE IF sub_type = KVType_DOUBLE /\ U32EqInt(t_array_size, 2) THEN <<"SourceVector2D", tmp>>
  ELSE <<"list", tmp>>

ContainerValue(frame) ==
  CASE frame.kind = "array" -> <<"list", frame.acc>>
    [] frame.kind = "object" -> <<"dict", frame.acc>>
    [] OTHER -> TypedResult(frame.sub_type, frame.count, frame.acc)

\* read_value, lines 253, 262, 274-280: a container's loop is over; attach it.
end_container ==
  /\ pc = "parse"
  /\ Len(stack) > 1
  /\ U32IsZero(Top.n)
  /\ LET parent == stack[Len(stack) - 1]
         v == ContainerValue(Top)
         grown == Add(parent, Top.name, Top.is_array, v)
     IN /\ stack' = Append(SubSeq(stack, 1, Len(stack) - 2), grown)
        /\ last' = [LastOf("attach") EXCEPT
                      !.data_type = IF Top.kind = "array" THEN KVType_ARRAY
                                    ELSE IF Top.kind = "object" THEN KVType_OBJECT
                                    ELSE KVType_ARRAY_TYPED,
                      !.is_array = Top.is_array, !.name = Top.name, !.val = v,
                      !.count = Top.count, !.sub_type = Top.sub_type,
                      !.outcome = "add", !.pos0 = bpos, !.pos1 = bpos,
                      !.before = parent.acc, !.after = grown.acc]
  /\ UNCHANGED <<pc, err, fileVars, reader, v1Vars, buffer, bpos, strings, string_count,
                 v2Vars, laneVars, kv, ntype, nvalue>>

\* read_v1, lines 107-109, and read_v2, lines 153-155: the root call returned.
finish ==
  /\ pc = "parse"
  /\ Len(stack) = 1
  /\ U32IsZero(Top.n)
  /\ IF assembler = "v2"
     THEN IF Top.acc = <<>>
          THEN Fail("IndexError") /\ kv' = Top.acc
          ELSE /\ kv' = <<"dict", <<<<Str(<<"PermModelData_t">>), Top.acc[1]>>>>>>
               /\ pc' = "done"
               /\ err' = err
     ELSE /\ kv' = <<"list", Top.acc>>
          /\ pc' = "done"
          /\ err' = err
  /\ UNCHANGED <<fileVars, reader, v1Vars, buffer, bpos, strings, string_count,
                 v2Vars, laneVars, stack, last, ntype, nvalue>>


\* ============================================================== properties
InLoop == assembler = "v1" /\ loops > 0
Verbatim == BitAnd(flags[4], 128) # 0

\* C1: in read_v1's decompression loop the buffer's size never exceeds the
\* 24-bit target packed from flags[0..2]; the loop stops producing at the
\* first moment the size equals it, also in the middle of a back-reference.
C1_SizeNeverExceedsTarget ==
  (InLoop /\ ~Verbatim) =>
     /\ Len(buffer) <= Target(flags)
     /\ (Len(buffer) = Target(flags) => pc \notin {"v1_while", "v1_for", "v1_copy"})

WideTypes == {KVType_INT64, KVType_UINT64, KVType_DOUBLE}

\* C3: read_value of Int64, UInt64 or Double consumes 8 bytes: with the
\* wide-scalar lane active the lane cursor advances by 8 and the main cursor
\* is where it was; with no lane (offset at its sentinel -1) the main cursor
\* advances by exactly 8.  The same rule for the three types.
C3_WideScalarRule ==
  (last.op = "read_value" /\ last.data_type \in WideTypes /\ last.outcome = "add") =>
     IF last.lane0 > -1
     THEN last.lane1 = last.lane0 + 8 /\ last.pos1 = last.pos0
     ELSE last.lane1 = last.lane0 /\ last.pos1 = last.pos0 + 8

Undecoded == {KVType_STRING_MULTI, KVType_BINARY_BLOB, KVType_UINT32, KVType_BOOLEAN_TRUE,
              KVType_BOOLEAN_FALSE, KVType_INT64_ZERO, KVType_INT64_ONE}

\* C4: read_value of a type tag without a decoding rule fails; it never
\* returns normally with the parent container unmodified.
C4_UndecodedTypeFails ==
  (last.op = "read_value" /\ last.data_type \in Undecoded) =>
     (pc = "error" /\ last.outcome = "error")

\* C5: a string-table index outside the table (index >= length, or negative
\* and not the -1 sentinel), read as a value's name or as a String value,
\* fails the decode and never yields a string of the table.
C5_StringIndexInBounds ==
  /\ (last.op = "read_value" /\ last.data_type = KVType_STRING /\ last.idx # -1
        /\ ~(0 <= last.idx /\ last.idx < Len(strings)))
       => (pc = "error" /\ last.outcome = "error")
  /\ (last.name_id # NoId /\ last.name_id # <<65535, 65535>>
        /\ ~U32Less(last.name_id, Len(strings)))
       => pc = "error"

\* C6: with the top bit of flags[3] set, the buffer handed to the string
\* table reader is exactly the rest of the block, and the loop body is never
\* executed, wherever the block ends in the file.
C6_VerbatimSkipsLoop ==
  (assembler = "v1" /\ Verbatim) =>
     /\ loops = 0
     /\ Len(buffer) = info_block.block_size - HeaderLen

NothingDecoded ==
  /\ strings = <<>>
  /\ stack = <<>>
  /\ kv = <<>>
  /\ types.len = 0
  /\ ntype = 0
  /\ last.op = "none"

\* C7: read_v2 reaches the lane layout and the tree only for compression
\* method 0 or 1 and, for method 1, a decompressed length equal to the
\* expected one; another method fails as unsupported and a mismatch as a
\* decode error, before any string, type tag or tree node exists.
C7_PayloadGate ==
  (assembler = "v2" /\ pc # "read_v2") =>
     /\ pc \in {"v2_layout", "strings", "parse", "done"} =>
          /\ compression_method \in {0, 1}
          /\ compression_method = 1 => produced = expected
     /\ compression_method \notin {0, 1} =>
          (pc = "error" /\ err = "Unknown KV3 compression method" /\ NothingDecoded)
     /\ (compression_method = 1 /\ produced # expected) =>
          (pc = "error" /\ NothingDecoded
             /\ err = "Decompressed data size does not match expected size")
C7_Witness ==
  /\ assembler = "v2"
  /\ compression_method = 1
  /\ produced # expected
  /\ pc = "error"

\* C8: read routes the legacy signature to read_v1 and the current one to
\* read_v2; any other signature fails with the format error after exactly 4
\* bytes were read, with neither assembler invoked.
C8_Dispatch ==
  pc # "read" =>
     /\ fourcc = SIG => assembler = "v1"
     /\ fourcc = SIG2 => assembler = "v2"
     /\ fourcc \notin {SIG, SIG2} =>
          /\ pc = "error"
          /\ err = "Invalid KV Signature"
          /\ assembler = "none"
          /\ reader.pos = info_block.absolute_offset + 4
          /\ buffer = <<>>
          /\ NothingDecoded
C8_Witness ==
  /\ pc = "error"
  /\ fourcc \notin {SIG, SIG2}
  /\ fourcc # <<>>
  /\ reader.pos = info_block.absolute_offset + 4

\* C9: a name index of -1 (all bits set) read by parse outside an array names
\* the value "ERROR", without a string-table lookup.
C9_MinusOneNamesError ==
  last.name_id = <<65535, 65535>> =>
     (last.name = ERROR /\ ~last.looked /\ last.op = "read_value")

\* The bytes of the k-th of n 64-bit scalars whose reads ended with the
\* cursor `end`.
WideAt(end, n, k) == Fetch(buffer, end - 8 * (n - k + 1), 8)
VectorKind(n) == CASE n = 2 -> "SourceVector2D" [] n = 3 -> "SourceVector"
                   [] OTHER -> "SourceVector4D"

\* C10: an Array-Typed value of Doubles with count 2, 3 or 4 is attached as
\* Vector2/3/4 with the decoded doubles in their order; with any other
\* element type or count, as a generic sequence of exactly `count` elements.
C10_TypedArrayResult ==
  (last.op = "attach" /\ last.data_type = KVType_ARRAY_TYPED) =>
     IF last.sub_type = KVType_DOUBLE /\ last.count \in {U32(2), U32(3), U32(4)}
     THEN LET n == last.count[2]
              end == IF double_offset > -1 THEN double_offset ELSE bpos
          IN /\ last.val[1] = VectorKind(n)
             /\ last.val[2] = [k \in 1..n |-> <<"float", WideAt(end, n, k)>>]
     ELSE /\ last.val[1] = "list"
          /\ U32EqInt(last.count, Len(last.val[2]))


\* Bytes read_value takes from the main cursor for a value of a type in the
\* current revision, where 64-bit scalars come from their lane.
MainBytes(data_type) ==
  CASE data_type = KVType_BOOLEAN -> 1
    [] data_type \in {KVType_INT32, KVType_STRING, KVType_ARRAY, KVType_OBJECT,
                      KVType_ARRAY_TYPED} -> 4
    [] OTHER -> 0

\* C11: with a type-tag lane present, each value parsed takes its type byte
\* (and its flag byte when the high bit is set) from the lane at the index
\* current_type, in increasing order, and no byte of them from the main
\* cursor; an Array-Typed value takes one more type (+flag) entry for its
\* elements, and its elements take no entry of their own.
C11_TypeLaneStep ==
  [][(assembler = "v2" /\ types.len > 0 /\ pc = "parse" /\ stack # <<>>) =>
       LET Tag(j) == buffer'[types.start + j + 1]
           Entries(j) == IF Tag(j) >= 128 THEN 2 ELSE 1
           own == Entries(current_type)
           used == current_type' - current_type
       IN /\ used >= 0
          /\ current_type' <= types.len
          /\ (pc' = "parse" /\ ~U32IsZero(Top.n) /\ Top.kind # "typed") =>
               /\ last'.data_type = Tag(current_type) % 128
               /\ used = own + (IF last'.data_type = KVType_ARRAY_TYPED
                                THEN Entries(current_type + own) ELSE 0)
               /\ last'.data_type = KVType_ARRAY_TYPED =>
                    last'.sub_type = Tag(current_type + own) % 128
               /\ bpos' - bpos = (IF Top.kind = "object" THEN 4 ELSE 0)
                                   + MainBytes(last'.data_type)
          /\ (pc' = "parse" /\ ~U32IsZero(Top.n) /\ Top.kind = "typed") =>
               /\ last'.data_type = Top.sub_type
               /\ used = (IF Top.sub_type = KVType_ARRAY_TYPED
                          THEN Entries(current_type) ELSE 0)
               /\ bpos' - bpos = MainBytes(Top.sub_type)
          /\ U32IsZero(Top.n) => used = 0
     ]_vars
C11_Witness ==
  /\ assembler = "v2"
  /\ types.len > 0
  /\ pc = "parse"
  /\ stack # <<>>
  /\ Top.kind = "typed"
  /\ Top.sub_type = KVType_STRING
  /\ Top.sub_flag # KVFlag_Nothing
  /\ Len(Top.acc) >= 2
  /\ current_type = 3


\* Lines 138-142: where the double lane ends, by the header's counts.
DoubleLaneEnd == kv_data_offset + int_count * 4 + double_count * 8

\* C12: in a current-revision decode the wide-scalar lane cursor never passes
\* the end of the double lane and the type-tag index never passes the length
\* of the type-tag lane; a 64-bit value for which the lane has no entry left
\* fails the decode.
C12_LaneCursorsInExtent ==
  assembler = "v2" =>
     /\ double_offset <= DoubleLaneEnd
     /\ current_type <= types.len
     /\ (last.op = "read_value" /\ last.data_type \in WideTypes /\ last.lane
           /\ last.lane0 + 8 > DoubleLaneEnd)
          => (pc = "error" /\ last.outcome = "error")


\* C13: an executed back-reference (offset, length) leaves the bytes produced
\* before it unchanged, makes every new byte equal to the byte `offset`
\* positions before it, and grows the buffer by exactly `length` bytes.
C13_ChunkedCopyIsLZ77 ==
  [][/\ (pc = "v1_for" /\ pc' = "v1_copy") =>
          /\ copy'.entry = Len(buffer)
          /\ copy'.offset <= Len(buffer)
          /\ Len(buffer') = Len(buffer)
          /\ \A k \in 1..Len(buffer) : buffer[k] # Unk => buffer'[k] = buffer[k]
     /\ pc = "v1_copy" =>
          /\ SubSeq(buffer', 1, Len(buffer)) = buffer
          /\ Len(buffer') > Len(buffer)
          /\ \A k \in (Len(buffer) + 1)..Len(buffer') :
               buffer'[k] = buffer'[k - copy.offset]
          /\ Len(buffer') <= copy.entry + copy.length
          /\ pc' # "v1_copy" => Len(buffer') = copy.entry + copy.length
    ]_vars
C13_Witness ==
  /\ assembler = "v1"
  /\ pc \in {"v1_for", "v1_while", "v1_tail"}
  /\ copy.data # <<>>
  /\ copy.offset = 2
  /\ copy.length = 3
  /\ Len(buffer) = copy.entry + copy.length
  /\ buffer[copy.entry - 1] # buffer[copy.entry]
  /\ buffer[Len(buffer)] = buffer[copy.entry - 1]


\* C14: in read_v2 the string count is read at the smallest multiple of 4
\* that is >= blob_count (at blob_count itself when it is a multiple of 4,
\* at 0 when it is 0); the structural data starts 4 bytes after it.
C14_BlobPadding ==
  (assembler = "v2" /\ kv_data_offset > 0) =>
     kv_data_offset - 4 = ((bin_blob_count + 3) \div 4) * 4


Next ==
  \/ read
  \/ read_v1_header
  \/ read_v1_while
  \/ read_v1_for
  \/ read_v1_copy
  \/ read_v1_tail
  \/ read_string
  \/ read_v2_header
  \/ read_v2_layout
  \/ read_v1_parse
  \/ read_v2_types
  \/ parse
  \/ read_element
  \/ end_container
  \/ finish

Spec == Init /\ [][Next]_vars

====
